---- MODULE Spec2Model ----
(***************************************************************************)
(* Model of src/src/analyzer.ts (ts-api): the declaration registry         *)
(* (symtab), the type-to-JSON-schema translator, relevance marking and the *)
(* three generated artifacts (__check.js, docs/swagger.json, __routes.js). *)
(*                                                                         *)
(* Conventions.                                                            *)
(*  - A JS string whose characters matter (a path) is a sequence of atoms; *)
(*    "/" and "." and a quote are atoms of their own, an identifier is one *)
(*    atom.  Names used as registry keys are TLA+ strings.                 *)
(*  - A JS object with insertion-ordered keys is a sequence of records     *)
(*    carrying their key.                                                  *)
(*  - null / undefined is the value Null.                                  *)
(*  - A thrown exception is a record [kind, name]; an operator that can    *)
(*    throw returns its result together with an err field.                 *)
(***************************************************************************)
EXTENDS Integers, Sequences, FiniteSets, TLC

VARIABLES pc, symtab, endpoints, visited, idx, part3, definitions,
          checkFile, swaggerFile, routesFile, log, error, run

vars == <<pc, symtab, endpoints, visited, idx, part3, definitions,
          checkFile, swaggerFile, routesFile, log, error, run>>

(***************************************************************************)
(* Bounds of the model.                                                    *)
(***************************************************************************)
\* number of top-level declarations the source files hold
MaxDecls == 3
\* number of calls of generate in one process
MaxRuns == 2
\* depth of the JS call stack at which the engine throws RangeError
StackLimit == 12

(***************************************************************************)
(* Generic helpers.                                                        *)
(***************************************************************************)
Null == [null |-> TRUE]

NoError == [kind |-> "none", name |-> ""]

Err(k, n) == [kind |-> k, name |-> n]

\* o[k] = v on a JS object modelled as a record
SetField(r, k, v) == [f \in DOMAIN r \cup {k} |-> IF f = k THEN v ELSE r[f]]

Has(r, k) == k \in DOMAIN r

Range(s) == {s[i] : i \in DOMAIN s}

(***************************************************************************)
(* Type nodes (the AST of a type annotation).  kind is                     *)
(*   "kw"      a keyword token (TokenObject), name the keyword             *)
(*   "ref"     TypeReference, name = typeName.text, subs = typeArguments   *)
(*   "array"   ArrayType, subs = <<elementType>>                           *)
(*   "union"   UnionType, subs = types                                     *)
(*   "literal" LiteralType, name = the literal's value ("" if unresolved)  *)
(*   "function" FunctionType                                               *)
(*   "absent"  no node at all (undefined)                                  *)
(***************************************************************************)
Kw(k) == [kind |-> "kw", name |-> k, subs |-> <<>>]

Ref(n) == [kind |-> "ref", name |-> n, subs |-> <<>>]

RefArgs(n, args) == [kind |-> "ref", name |-> n, subs |-> args]

Arr(t) == [kind |-> "array", name |-> "", subs |-> <<t>>]

Union(ts) == [kind |-> "union", name |-> "", subs |-> ts]

Absent == [kind |-> "absent", name |-> "", subs |-> <<>>]

(***************************************************************************)
(* The registry.  symtab is the sequence of its entries in insertion       *)
(* order; an entry carries its key.                                        *)
(***************************************************************************)
SymHas(tab, n) == \E i \in DOMAIN tab : tab[i].key = n

SymIdx(tab, n) == CHOOSE i \in DOMAIN tab : tab[i].key = n

SymGet(tab, n) == tab[SymIdx(tab, n)]

\* symtab[n] = e: an existing key keeps its place
SymPut(tab, n, e) ==
  IF SymHas(tab, n) THEN [tab EXCEPT ![SymIdx(tab, n)] = e] ELSE Append(tab, e)

SymKeys(tab) == {tab[i].key : i \in DOMAIN tab}

\* a variant of TypeEntry that declares the type already marked relevant
TypeEntryMarked(n, c) ==
  [key |-> n, type |-> "type", members |-> <<>>, methods |-> <<>>,
   args |-> <<>>, relevant |-> TRUE, def |-> Null, comment |-> c]

\* { type:"type", members:{}, jsDoc:null } with its comment
TypeEntry(n, c) ==
  [key |-> n, type |-> "type", members |-> <<>>, methods |-> <<>>,
   args |-> <<>>, relevant |-> FALSE, def |-> Null, comment |-> c]

\* { type:"controller" | "router", name, fileName, comment, methods:[], args:[] }
ClassEntry(t, n, c) ==
  [key |-> n, type |-> t, members |-> <<>>, methods |-> <<>>,
   args |-> <<>>, relevant |-> FALSE, def |-> Null, comment |-> c]

\* the documentation comment the type checker reports for a named symbol, the
\* symbol a type reference of that name resolves to
DocComment(n) == IF n = "A" THEN <<"doc", "A">> ELSE <<>>

\* the documentation comment of the symbol of a declaration: a declaration of
\* another source file that reuses a name is another symbol, with its own doc
CommentOf(node) == IF "doc" \in DOMAIN node THEN node.doc ELSE DocComment(node.name)

(***************************************************************************)
(* Schema translation.                                                     *)
(***************************************************************************)
NoOptions == [given |-> FALSE, docRoot |-> "", expandRefs |-> FALSE]

Options(root, expand) == [given |-> TRUE, docRoot |-> root, expandRefs |-> expand]

tokenObjectToJSON(o) ==
  CASE o.name = "string"    -> [val |-> [type |-> "string"], err |-> NoError]
    [] o.name = "number"    -> [val |-> [type |-> "number"], err |-> NoError]
    [] o.name = "boolean"   -> [val |-> [type |-> "boolean"], err |-> NoError]
    [] o.name = "any"       -> [val |-> [oneOf |-> <<[type |-> "object"], [type |-> "number"],
                                                     [type |-> "string"]>>],
                                err |-> NoError]
    [] o.name = "null"      -> [val |-> [type |-> "null"], err |-> NoError]
    [] o.name = "undefined" -> [val |-> Null, err |-> NoError]
    [] o.name = "symbol"    -> [val |-> Null, err |-> NoError]
    [] o.name = "object"    -> [val |-> [type |-> "object"], err |-> NoError]
    [] OTHER                -> [val |-> Null, err |-> Err("unknown type", o.name)]

maptypeDescName(docRoot, name) ==
  CASE name = "Object"   -> [type |-> "object"]
    [] name = "String"   -> [type |-> "string"]
    [] name = "Number"   -> [type |-> "number"]
    [] name = "Boolean"  -> [type |-> "boolean"]
    [] name = "Function" -> Null
    [] OTHER             -> [ref |-> <<docRoot, name>>]

\* typeof of a literal's value: the model's literal values are strings
literalToJSON(typeDesc) ==
  IF typeDesc.name # ""
  THEN [val |-> [type |-> "string", oneOf |-> <<[format |-> typeDesc.name]>>],
        err |-> NoError]
  ELSE [val |-> Null, err |-> Err("unknown literal type", "")]

HasType(s) == Has(s, "type") /\ s.type # "null"

\* a variant of applyValueTag that sets the attribute on any fragment
applyValueTagAlways(schemaObject, title, value) == SetField(schemaObject, title, value)

applyValueTag(schemaObject, title, value) ==
  IF HasType(schemaObject) THEN SetField(schemaObject, title, value)
  ELSE IF Has(schemaObject, "oneOf")
  THEN SetField(schemaObject, "oneOf",
         [i \in DOMAIN schemaObject.oneOf |->
            IF HasType(schemaObject.oneOf[i])
            THEN SetField(schemaObject.oneOf[i], title, value)
            ELSE schemaObject.oneOf[i]])
  ELSE schemaObject

applyTypenameTag(schemaObject, name) ==
  IF HasType(schemaObject) THEN SetField(schemaObject, "type", name)
  ELSE IF Has(schemaObject, "oneOf")
  THEN SetField(schemaObject, "oneOf",
         [i \in DOMAIN schemaObject.oneOf |->
            IF HasType(schemaObject.oneOf[i])
            THEN SetField(schemaObject.oneOf[i], "type", name)
            ELSE schemaObject.oneOf[i]])
  ELSE schemaObject

\* parseInt of a tag's text: the decimal digits of the model's tag values
ParseInt(s) ==
  CASE s = "0" -> 0 [] s = "1" -> 1 [] s = "2" -> 2 [] s = "5" -> 5 [] OTHER -> -1

\* a tag is [title, description, typeKind, typeName]
applyTag(schemaObject, tag) ==
  IF tag.title = "minimum" \/ tag.title = "maximum"
  THEN applyValueTag(schemaObject, tag.title, ParseInt(tag.description))
  ELSE IF tag.title = "type" /\ tag.typeKind = "NameExpression"
  THEN applyTypenameTag(schemaObject, tag.typeName)
  ELSE schemaObject

RECURSIVE applyTags(_, _)
applyTags(res, tags) ==
  IF tags = <<>> THEN res ELSE applyTags(applyTag(res, Head(tags)), Tail(tags))

\* the loops of typeToJSON over jsDoc[i].tags[j]
RECURSIVE applyJsDoc(_, _)
applyJsDoc(res, jsDoc) ==
  IF jsDoc = <<>> THEN res
  ELSE applyJsDoc(applyTags(res, Head(jsDoc).tags), Tail(jsDoc))

\* checker.getTypeFromTypeNode(typeDesc).symbol: a reference has the symbol of
\* its declaration, an array that of Array; keywords, unions and literals none
SymbolName(typeDesc) ==
  CASE typeDesc.kind = "ref"   -> typeDesc.name
    [] typeDesc.kind = "array" -> "Array"
    [] OTHER                   -> ""

\* the tail of typeToJSON: tags and description on a result that is not null
Describe(typeDesc, jsDoc, raw) ==
  IF raw.err # NoError \/ raw.val = Null THEN raw
  ELSE [val |-> IF SymbolName(typeDesc) # ""
                THEN SetField(applyJsDoc(raw.val, jsDoc), "description",
                              DocComment(SymbolName(typeDesc)))
                ELSE applyJsDoc(raw.val, jsDoc),
        err |-> NoError]

\* { type:"array", items:<it> }
ArrayOf(it) ==
  IF it.err # NoError THEN it
  ELSE [val |-> [type |-> "array", items |-> it.val], err |-> NoError]

DocRoot(options) ==
  IF options.given /\ options.docRoot # "" THEN options.docRoot ELSE "#/definitions"

\* a named reference whose mapping is res: expanded to symtab[name].def under expandRefs
ExpandRef(tab, name, options, res) ==
  IF res # Null /\ Has(res, "ref") /\ options.given /\ options.expandRefs
  THEN IF ~SymHas(tab, name)
       THEN [val |-> Null, err |-> Err("undefined type", name)]
       ELSE [val |-> SymGet(tab, name).def, err |-> NoError]
  ELSE [val |-> res, err |-> NoError]

RECURSIVE typeToJSON(_, _, _, _)
RECURSIVE unionToJSON(_, _, _, _)
RECURSIVE unionPush(_, _, _, _, _)
\* the body of unionToJSON's loop once member k is translated
unionPush(tab, types, k, acc, unionElement) ==
  IF unionElement.err # NoError THEN [val |-> Null, err |-> unionElement.err]
  ELSE unionToJSON(tab, types, k + 1,
         IF unionElement.val # Null THEN Append(acc, unionElement.val) ELSE acc)

\* the loop of unionToJSON from member k on, acc the oneOf list so far; the
\* members are translated with no jsDoc and the options unionToJSON was given
unionToJSON(tab, types, k, acc) ==
  IF k > Len(types) THEN [val |-> [oneOf |-> acc], err |-> NoError]
  ELSE unionPush(tab, types, k, acc, typeToJSON(tab, types[k], <<>>, NoOptions))

typeToJSON(tab, typeDesc, jsDoc, options) ==
  Describe(typeDesc, jsDoc,
    CASE typeDesc.kind = "array" ->
           ArrayOf(typeToJSON(tab, typeDesc.subs[1], jsDoc, options))
      [] typeDesc.kind = "ref" ->
           IF typeDesc.name = "Array"
           THEN IF typeDesc.subs = <<>>
                THEN [val |-> Null, err |-> Err("TypeError", "typeArguments")]
                ELSE ArrayOf(typeToJSON(tab, typeDesc.subs[1], jsDoc, options))
           ELSE ExpandRef(tab, typeDesc.name, options,
                          maptypeDescName(DocRoot(options), typeDesc.name))
      [] typeDesc.kind = "function" -> [val |-> Null, err |-> NoError]
      [] typeDesc.kind = "union" -> unionToJSON(tab, typeDesc.subs, 1, <<>>)
      [] typeDesc.kind = "literal" -> literalToJSON(typeDesc)
      [] typeDesc.kind = "kw" -> tokenObjectToJSON(typeDesc)
      [] OTHER -> [val |-> Null, err |-> Err("TypeError", "constructor")])

(***************************************************************************)
(* Relevance marking.  The recursion of markAsRelevant is followed to the  *)
(* depth StackLimit, where the JS engine throws RangeError ("Maximum call  *)
(* stack size exceeded"); st is [tab, err], d the depth of the call.       *)
(***************************************************************************)
\* a variant of MemberTypes that follows no member edge: the marking it gives
\* stops at the types an endpoint names itself
NoMemberTypes(entry) == <<>>

MemberTypes(entry) == [i \in DOMAIN entry.members |-> entry.members[i].type]

SetRelevant(tab, n) == [tab EXCEPT ![SymIdx(tab, n)].relevant = TRUE]

RECURSIVE markAsRelevant(_, _, _)
RECURSIVE markEach(_, _, _, _)
\* a loop calling markAsRelevant on each of types from k on
markEach(types, k, st, d) ==
  IF k > Len(types) \/ st.err # NoError THEN st
  ELSE markEach(types, k + 1, markAsRelevant(types[k], st, d), d)

markAsRelevant(typeDesc, st, d) ==
  IF st.err # NoError THEN st
  ELSE IF d > StackLimit THEN [st EXCEPT !.err = Err("RangeError", "call stack")]
  ELSE CASE typeDesc.kind = "absent" ->
              [st EXCEPT !.err = Err("TypeError", "constructor")]
         [] typeDesc.kind = "array" -> markAsRelevant(typeDesc.subs[1], st, d + 1)
         [] typeDesc.kind = "ref" ->
              IF ~SymHas(st.tab, typeDesc.name)
              THEN [st EXCEPT !.err = Err("undefined type", typeDesc.name)]
              ELSE markEach(MemberTypes(SymGet(st.tab, typeDesc.name)), 1,
                     markEach(typeDesc.subs, 1,
                       [st EXCEPT !.tab = SetRelevant(st.tab, typeDesc.name)], d + 1),
                     d + 1)
         [] typeDesc.kind = "union" -> markEach(typeDesc.subs, 1, st, d + 2)
         [] OTHER -> st

(***************************************************************************)
(* parameterListToJSON: the schema of a method's parameter list; marks the *)
(* parameter and return types.  Returns [tab, err, x].                     *)
(***************************************************************************)
PutProp(props, k, v) ==
  IF \E i \in DOMAIN props : props[i].key = k
  THEN [i \in DOMAIN props |-> IF props[i].key = k THEN [key |-> k, value |-> v] ELSE props[i]]
  ELSE Append(props, [key |-> k, value |-> v])

WithProps(m, props) == [tab |-> m.tab, err |-> m.err, props |-> props]

WithX(m, x) == [tab |-> m.tab, err |-> m.err, x |-> x]

RECURSIVE plistLoop(_, _, _)
RECURSIVE plistParam(_, _, _, _)
\* the body of the first loop of parameterListToJSON for parameter k, whose
\* translation is jsonValue: a parameter with a schema is recorded and marked
plistParam(method, k, s, jsonValue) ==
  IF jsonValue.err # NoError THEN [s EXCEPT !.err = jsonValue.err]
  ELSE IF jsonValue.val = Null THEN plistLoop(method, k + 1, s)
  ELSE plistLoop(method, k + 1,
         WithProps(markAsRelevant(method.methodParameters[k].type,
                                  [tab |-> s.tab, err |-> NoError], 1),
                   PutProp(s.props, method.methodParameters[k].id, jsonValue.val)))

\* the first loop of parameterListToJSON from parameter k on; s is [tab, err, props]
plistLoop(method, k, s) ==
  IF k > Len(method.methodParameters) \/ s.err # NoError THEN s
  ELSE plistParam(method, k, s,
         typeToJSON(s.tab, method.methodParameters[k].type, <<>>, NoOptions))

\* a variant of ParameterNames that names no parameter
NoParameterNames(method) == <<>>

ParameterNames(method) == [i \in DOMAIN method.methodParameters |-> method.methodParameters[i].id]

\* the object parameterListToJSON returns
plistResult(method, props) ==
  [className |-> method.className,
   method |-> method.decorates,
   parameterNames |-> ParameterNames(method),
   schema |-> [title |-> <<method.decorates, "plist">>,
               description |-> <<"Parameter list for", method.decorates>>,
               type |-> "object",
               properties |-> props]]

\* markAsRelevant(method.returnType) after the parameter loop ended in s
plistReturn(method, s) ==
  IF s.err # NoError THEN [tab |-> s.tab, err |-> s.err, x |-> Null]
  ELSE WithX(markAsRelevant(method.returnType, [tab |-> s.tab, err |-> NoError], 1),
             plistResult(method, s.props))

parameterListToJSON(tab, method) ==
  plistReturn(method, plistLoop(method, 1, [tab |-> tab, err |-> NoError, props |-> <<>>]))

(***************************************************************************)
(* Pass 1: the traversal of the source files (generate: visit, visit2,     *)
(* visitDecorator).                                                        *)
(*                                                                         *)
(* A top-level node is                                                     *)
(*   [kind |-> "interface", name, members]  members: [name, type,          *)
(*        optional, tags], a tag [name, text] as getJsDocTags gives it     *)
(*   [kind |-> "class", name, decorator, call, args, methods]              *)
(*        decorator: "" (none) or the decorator's name, call: whether the  *)
(*        decorator is a call expression, args: its argument nodes         *)
(*        [kind, text]; methods: [name, decorator, call, args, params,     *)
(*        ret] with params a list of [id, type]                            *)
(***************************************************************************)
Quote == "'"

\* text.replace(/^["']|["']$/g,'')
StripQuotes(text) ==
  LET a == IF text # <<>> /\ Head(text) = Quote THEN Tail(text) ELSE text
  IN  IF a # <<>> /\ a[Len(a)] = Quote THEN SubSeq(a, 1, Len(a) - 1) ELSE a

RECURSIVE genArgumentList(_, _, _)
\* the loop of genArgumentList from argument k on; s is [list, log, err]
genArgumentList(args, k, s) ==
  IF k > Len(args) \/ s.err # NoError THEN s
  ELSE CASE args[k].kind = "StringLiteral" ->
              genArgumentList(args, k + 1,
                [s EXCEPT !.list = Append(@, StripQuotes(args[k].text))])
         [] args[k].kind = "NumericLiteral" ->
              genArgumentList(args, k + 1, [s EXCEPT !.list = Append(@, args[k].text)])
         [] args[k].kind = "Identifier" ->
              genArgumentList(args, k + 1, [s EXCEPT !.list = Append(@, args[k].text)])
         [] args[k].kind = "FunctionExpression" ->
              genArgumentList(args, k + 1,
                [s EXCEPT !.log = Append(@, Err("ignoring function in decorator argument list", ""))])
         [] OTHER ->
              [s EXCEPT !.err = Err("unknown type in decorator argument list", args[k].kind)]

ArgumentList(args) == genArgumentList(args, 1, [list |-> <<>>, log |-> <<>>, err |-> NoError])

Verbs == {"get", "post", "put", "del", "all"}

\* the DecoratedFunction visitDecorator pushes for method m, al its argument list;
\* a throw of genArgumentList is caught by visit and logged.  s is [endpoints, log]
pushEndpoint(className, m, s, al) ==
  IF al.err # NoError
  THEN [s EXCEPT !.log = Append(@ \o al.log, al.err)]
  ELSE [endpoints |-> Append(s.endpoints,
            [className |-> className,
             decorates |-> m.name,
             decoratorArgs |-> al.list,
             methodParameters |-> m.params,
             returnType |-> m.ret,
             type |-> IF m.decorator = "del" THEN "delete" ELSE m.decorator]),
        log |-> s.log \o al.log]

\* visit of one method of class className: visitDecorator's MethodDeclaration
\* case under visit's try/catch
visitMethod(className, m, s) ==
  IF m.decorator = "" \/ ~m.call \/ m.decorator \notin Verbs THEN s
  ELSE pushEndpoint(className, m, s, ArgumentList(m.args))

RECURSIVE visitMethods(_, _, _, _)
\* ts.forEachChild(class, visit) from method k on
visitMethods(className, methods, k, s) ==
  IF k > Len(methods) THEN s
  ELSE visitMethods(className, methods, k + 1, visitMethod(className, methods[k], s))

\* addController: [tab, err]
addController(tab, className) ==
  IF SymHas(tab, className)
  THEN [tab |-> tab, err |-> Err("multiple references to same class", className)]
  ELSE [tab |-> SymPut(tab, className, ClassEntry("controller", className, DocComment(className))),
        err |-> NoError]

addRouter(tab, className) ==
  SymPut(tab, className, ClassEntry("router", className, DocComment(className)))

\* entry.args = genArgumentList(cexpr) for a registered class; a throw is logged
setClassArgs(tab, node, kids, al) ==
  IF al.err # NoError
  THEN [tab |-> tab, endpoints |-> kids.endpoints, log |-> Append(kids.log \o al.log, al.err)]
  ELSE [tab |-> [tab EXCEPT ![SymIdx(tab, node.name)].args = al.list],
        endpoints |-> kids.endpoints, log |-> kids.log \o al.log]

\* the rest of visitDecorator's ClassDeclaration case once addController or
\* addRouter returned reg; tab is the registry before it
decoratedClass(tab, node, kids, reg) ==
  IF reg.err # NoError
  THEN [tab |-> tab, endpoints |-> kids.endpoints, log |-> Append(kids.log, reg.err)]
  ELSE IF node.call /\ node.decorator \in {"controller", "router"}
  THEN setClassArgs(reg.tab, node, kids, ArgumentList(node.args))
  ELSE [tab |-> reg.tab, endpoints |-> kids.endpoints, log |-> kids.log]

\* visit of a class whose methods have been visited with result kids: an
\* undecorated class is registered as a type
registerClass(tab, node, kids) ==
  IF node.decorator = ""
  THEN [tab |-> SymPut(tab, node.name, TypeEntry(node.name, DocComment(node.name))),
        endpoints |-> kids.endpoints, log |-> kids.log]
  ELSE decoratedClass(tab, node, kids,
         IF node.decorator = "controller" THEN addController(tab, node.name)
         ELSE IF node.decorator = "router"
         THEN [tab |-> addRouter(tab, node.name), err |-> NoError]
         ELSE [tab |-> tab, err |-> NoError])

\* visit of a top-level class: [tab, endpoints, log]
visitClass(tab, eps, lg, node) ==
  registerClass(tab, node,
    visitMethods(node.name, node.methods, 1, [endpoints |-> eps, log |-> lg]))

\* the tag block visit2 rebuilds from getJsDocTags and hands to doctrine.parse:
\* "integer" becomes @type {integer}, any other tag keeps its name and text
TagSrc(tags) ==
  [i \in DOMAIN tags |->
     IF tags[i].name = "integer" THEN [name |-> "type", text |-> "{integer}"]
     ELSE tags[i]]

\* doctrine.parse of one rebuilt tag: a @type tag with a {name} expression has a
\* NameExpression; a malformed type expression makes doctrine throw
DoctrineTag(t) ==
  IF t.name = "type"
  THEN IF t.text = "{"
       THEN [tag |-> Null, err |-> Err("invalid JSDoc", t.text)]
       ELSE [tag |-> [title |-> "type", description |-> "", typeKind |-> "NameExpression",
                      typeName |-> IF t.text = "{integer}" THEN "integer" ELSE t.text],
             err |-> NoError]
  ELSE [tag |-> [title |-> t.name, description |-> t.text, typeKind |-> "", typeName |-> ""],
        err |-> NoError]

DoctrineParse(src) ==
  IF \E i \in DOMAIN src : DoctrineTag(src[i]).err # NoError
  THEN [doc |-> Null,
        err |-> DoctrineTag(src[CHOOSE i \in DOMAIN src : DoctrineTag(src[i]).err # NoError]).err]
  ELSE [doc |-> [tags |-> [i \in DOMAIN src |-> DoctrineTag(src[i]).tag]], err |-> NoError]

PutMember(members, n, v) ==
  IF \E i \in DOMAIN members : members[i].name = n
  THEN [i \in DOMAIN members |-> IF members[i].name = n THEN v ELSE members[i]]
  ELSE Append(members, v)

\* the member visit2 saves when the property's schema is desc; s is [tab, file, err]
saveMember(parentName, sig, s, desc) ==
  IF desc.err # NoError THEN [s EXCEPT !.err = desc.err]
  ELSE IF desc.val = Null THEN s
  ELSE [s EXCEPT !.tab[SymIdx(s.tab, parentName)].members =
          PutMember(@, sig.name,
            [name |-> sig.name, desc |-> desc.val, type |-> sig.type,
             optional |-> sig.optional])]

\* visit2 after the tag block, if any, is written and parsed into parsed
describeMember(parentName, sig, s, parsed) ==
  IF parsed.err # NoError THEN [s EXCEPT !.err = parsed.err]
  ELSE saveMember(parentName, sig, s,
         typeToJSON(s.tab, sig.type, IF sig.tags # <<>> THEN <<parsed.doc>> ELSE <<>>,
                    Options("#/components/schemas", FALSE)))

\* visit2 on one property signature of interface parentName: a tag block is
\* written to checkFile before it is parsed
visit2(parentName, sig, s) ==
  IF sig.tags # <<>>
  THEN describeMember(parentName, sig,
         [s EXCEPT !.file = Append(@, [kind |-> "tagSrc", src |-> TagSrc(sig.tags)])],
         DoctrineParse(TagSrc(sig.tags)))
  ELSE describeMember(parentName, sig, s, [doc |-> Null, err |-> NoError])

RECURSIVE visitMembers(_, _, _, _)
\* ts.forEachChild(interface, visit2) from member k on
visitMembers(parentName, members, k, s) ==
  IF k > Len(members) \/ s.err # NoError THEN s
  ELSE visitMembers(parentName, members, k + 1, visit2(parentName, members[k], s))

\* visit of a top-level interface: [tab, file, err]
visitInterface(tab, file, node) ==
  visitMembers(node.name, node.members, 1,
    [tab |-> SymPut(tab, node.name, TypeEntry(node.name, CommentOf(node))),
     file |-> file, err |-> NoError])

(***************************************************************************)
(* Pass 2: connectMethods and genSources.                                  *)
(***************************************************************************)
RECURSIVE connectMethods(_, _, _)
\* the loop of connectMethods from endpoint k on; s is [tab, err].  An entry of
\* type "type" has no methods array: the push throws TypeError
connectMethods(eps, k, s) ==
  IF k > Len(eps) \/ s.err # NoError THEN s
  ELSE IF ~SymHas(s.tab, eps[k].className) THEN connectMethods(eps, k + 1, s)
  ELSE IF SymGet(s.tab, eps[k].className).type = "type"
  THEN [s EXCEPT !.err = Err("TypeError", "push")]
  ELSE connectMethods(eps, k + 1,
         [s EXCEPT !.tab[SymIdx(s.tab, eps[k].className)].methods = Append(@, eps[k])])

IsRequired(m) == ~m.optional

\* the definition symtabToSchemaDefinitions builds for a relevant type entry
SchemaDefinition(entry) ==
  LET required == [i \in DOMAIN SelectSeq(entry.members, IsRequired) |->
                     SelectSeq(entry.members, IsRequired)[i].name]
      base == [type |-> "object",
               properties |-> [i \in DOMAIN entry.members |->
                                 [key |-> entry.members[i].name, value |-> entry.members[i].desc]],
               description |-> entry.comment]
  IN  IF required # <<>> THEN SetField(base, "required", required) ELSE base

\* a variant of IsEmitted that ignores the relevance flag
IsTypeEntry(entry) == entry.type = "type"

IsEmitted(entry) == entry.type = "type" /\ entry.relevant

\* symtabToSchemaDefinitions: [tab, res]; res the definitions map in key order
symtabToSchemaDefinitions(tab) ==
  [tab |-> [i \in DOMAIN tab |->
              IF IsEmitted(tab[i]) THEN [tab[i] EXCEPT !.def = SchemaDefinition(tab[i])]
              ELSE tab[i]],
   res |-> [i \in DOMAIN SelectSeq(tab, IsEmitted) |->
              [key |-> SelectSeq(tab, IsEmitted)[i].key,
               value |-> SchemaDefinition(SelectSeq(tab, IsEmitted)[i])]]]

ClassDefinition(e) ==
  [path |-> IF e.args # <<>> THEN e.args[1] ELSE <<e.key>>,
   className |-> e.key,
   comment |-> e.comment,
   methods |-> e.methods,
   args |-> e.args]

IsController(e) == e.type = "controller"

IsRouter(e) == e.type = "router"

symtabToControllerDefinitions(tab) ==
  [i \in DOMAIN SelectSeq(tab, IsController) |-> ClassDefinition(SelectSeq(tab, IsController)[i])]

symtabToRouterDefinitions(tab) ==
  [i \in DOMAIN SelectSeq(tab, IsRouter) |-> ClassDefinition(SelectSeq(tab, IsRouter)[i])]

\* the two strip steps applied to a controller path and a router prefix
StripPath(p) ==
  LET a == IF p # <<>> /\ Head(p) = "/" THEN Tail(p) ELSE p
  IN  IF a # <<>> /\ a[Len(a)] = "." THEN SubSeq(a, 1, Len(a) - 1) ELSE a

\* a variant of genArgsToSchema whose statements index the arguments from 1
genArgsToSchemaFromOne(parameterNames) ==
  [i \in DOMAIN parameterNames |-> [key |-> parameterNames[i], index |-> i]]

\* genArgsToSchema: the body of the generated function, one statement
\* o['key'] = a[index] for each parameter, index counting from 0 as the loop does
genArgsToSchema(parameterNames) ==
  [i \in DOMAIN parameterNames |-> [key |-> parameterNames[i], index |-> i - 1]]

\* genMethodEntry: the entry exports["className.methodName"]
genMethodEntry(className, methodName, parameterNames, schema) ==
  [key |-> <<className, ".", methodName>>,
   schema |-> schema,
   argsToSchema |-> genArgsToSchema(parameterNames)]

(***************************************************************************)
(* The generated __check.js at run time: the function argsToSchema of an   *)
(* entry applied to an argument list, and the validation of the object it  *)
(* returns by the compiled schema (Ajv with coerceTypes, keywords type,    *)
(* properties and required).  A JS value is [t, text]; a is the JS array   *)
(* of the arguments, a TLA+ sequence whose element k is a[k - 1].          *)
(***************************************************************************)
Undefined == [t |-> "undefined", text |-> ""]

JsNumber(text) == [t |-> "number", text |-> text]

JsString(text) == [t |-> "string", text |-> text]

\* a[i] of a JS array
JsIndex(a, i) == IF i + 1 \in DOMAIN a THEN a[i + 1] ELSE Undefined

RECURSIVE RunStatements(_, _, _, _)
\* the statements of the generated function from k on, o the object so far
RunStatements(stmts, k, a, o) ==
  IF k > Len(stmts) THEN o
  ELSE RunStatements(stmts, k + 1, a, PutProp(o, stmts[k].key, JsIndex(a, stmts[k].index)))

\* check.argsToSchema(arguments)
RunArgsToSchema(stmts, a) == RunStatements(stmts, 1, a, <<>>)

\* the keyword type under coerceTypes: a string that reads as a number is
\* accepted as a number, a number is accepted as a string
TypeAccepts(fragment, v) ==
  IF ~Has(fragment, "type") THEN TRUE
  ELSE CASE fragment.type = "number" ->
              v.t = "number" \/ (v.t = "string" /\ ParseInt(v.text) >= 0)
         [] fragment.type = "string" -> v.t \in {"string", "number"}
         [] OTHER -> TRUE

\* check.validate(o) for an object schema
AjvValidate(schema, o) ==
  /\ \A r \in Range(schema.required) :
       \E i \in DOMAIN o : o[i].key = r /\ o[i].value # Undefined
  /\ \A p \in DOMAIN schema.properties : \A i \in DOMAIN o :
       (o[i].key = schema.properties[p].key /\ o[i].value # Undefined)
         => TypeAccepts(schema.properties[p].value, o[i].value)

\* the verb rule of the document
SwaggerInputForm(methodType) ==
  IF methodType = "post" \/ methodType = "all" \/ methodType = "delete" THEN "body"
  ELSE "query"

\* a variant of RouteInputForm that reads req.query for get only
RouteInputFormGetOnly(rfunc) == IF rfunc = "get" THEN "query" ELSE "body"

\* the verb rule of the routes
RouteInputForm(rfunc) == IF rfunc = "get" \/ rfunc = "put" THEN "query" ELSE "body"

\* the path segment of an endpoint in the document
SwaggerSegment(method) == <<method.decorates>>

\* the path segment of an endpoint in the routes
RouteSegment(endpoint) ==
  IF endpoint.decoratorArgs # <<>> THEN endpoint.decoratorArgs[1] ELSE <<endpoint.decorates>>

SwaggerOptions == Options("#/components/schemas", TRUE)

\* the entries genSwaggerPaths pushes for a method parameter translated to td
SwaggerParameter(parameter, inputForm, td) ==
  IF td.err # NoError THEN [list |-> <<>>, err |-> td.err]
  ELSE IF td.val # Null /\ Has(td.val, "type") /\ td.val.type = "object"
  THEN [list |-> IF Has(td.val, "properties")
                 THEN [i \in DOMAIN td.val.properties |->
                         [name |-> <<td.val.properties[i].key>>,
                          in |-> inputForm,
                          schema |-> td.val.properties[i].value,
                          required |-> Has(td.val, "required")
                                       /\ td.val.properties[i].key \in Range(td.val.required)]]
                 ELSE <<>>,
        err |-> NoError]
  ELSE [list |-> <<[name |-> <<parameter.id>>, in |-> inputForm, schema |-> td.val,
                    required |-> TRUE]>>,
        err |-> NoError]

PushParameters(acc, one) == [list |-> acc.list \o one.list, err |-> one.err]

RECURSIVE SwaggerParameters(_, _, _, _, _)
\* the parameter loop of genSwaggerPaths from parameter k on; acc is [list, err]
SwaggerParameters(tab, params, inputForm, k, acc) ==
  IF k > Len(params) \/ acc.err # NoError THEN acc
  ELSE SwaggerParameters(tab, params, inputForm, k + 1,
         PushParameters(acc,
           SwaggerParameter(params[k], inputForm,
             typeToJSON(tab, params[k].type, <<>>, SwaggerOptions))))

\* returnTypename: the text of returnType.typeName, "" when there is none
ReturnTypename(rt) == IF rt.kind = "ref" THEN rt.name ELSE ""

\* a variant of ReturnTypedef that keeps the translation of Promise itself
ReturnTypedefNoUnwrap(tab, rt, first) == first

\* returnTypedef, first the translation of the return type itself
ReturnTypedef(tab, rt, first) ==
  IF first.err # NoError THEN first
  ELSE IF ReturnTypename(rt) = "Promise"
  THEN IF rt.subs = <<>> THEN [val |-> Null, err |-> Err("TypeError", "typeArguments")]
       ELSE typeToJSON(tab, rt.subs[1], <<>>, SwaggerOptions)
  ELSE first

\* the response map for returnTypedef: [responses, err]
Responses(returnTypedef) ==
  IF returnTypedef.err # NoError THEN [responses |-> <<>>, err |-> returnTypedef.err]
  ELSE IF returnTypedef.val # Null
  THEN [responses |-> <<[key |-> "200",
                         value |-> [description |-> "Successful response",
                                    schema |-> returnTypedef.val]]>>,
        err |-> NoError]
  ELSE [responses |-> <<[key |-> "204", value |-> [description |-> "Successful response"]]>>,
        err |-> NoError]

SwaggerResponses(tab, method) ==
  Responses(ReturnTypedef(tab, method.returnType,
    IF method.returnType.kind # "absent"
    THEN typeToJSON(tab, method.returnType, <<>>, NoOptions)
    ELSE [val |-> Null, err |-> NoError]))

\* the path entry of method of controller, given its responses and parameters
PathEntry(prefix, controller, method, resp, parms) ==
  [entry |-> [key |-> <<"/">> \o prefix \o <<"/">> \o StripPath(controller.path)
                      \o <<"/">> \o SwaggerSegment(method),
              value |-> [verb |-> method.type,
                         op |-> [tags |-> <<StripPath(controller.path)>>,
                                 operationId |-> method.decorates,
                                 parameters |-> parms.list,
                                 responses |-> resp.responses]]],
   err |-> IF resp.err # NoError THEN resp.err ELSE parms.err]

\* the body of genSwaggerPaths's inner loop: [entry, err]
SwaggerPath(tab, prefix, controller, method) ==
  PathEntry(prefix, controller, method, SwaggerResponses(tab, method),
    SwaggerParameters(tab, method.methodParameters, SwaggerInputForm(method.type), 1,
                      [list |-> <<>>, err |-> NoError]))

\* paths[pathId] = {}; paths[pathId][methodType] = path
PutPath(acc, one) ==
  [paths |-> IF one.err # NoError THEN acc.paths
             ELSE PutProp(acc.paths, one.entry.key, one.entry.value),
   err |-> one.err]

RECURSIVE genSwaggerPaths(_, _, _, _, _, _)
\* the loops of genSwaggerPaths from controller i, method j on; acc is [paths, err]
genSwaggerPaths(tab, prefix, controllers, i, j, acc) ==
  IF i > Len(controllers) \/ acc.err # NoError THEN acc
  ELSE IF j > Len(controllers[i].methods)
  THEN genSwaggerPaths(tab, prefix, controllers, i + 1, 1, acc)
  ELSE genSwaggerPaths(tab, prefix, controllers, i, j + 1,
         PutPath(acc, SwaggerPath(tab, prefix, controllers[i], controllers[i].methods[j])))

\* a variant of genSwaggerRoutes that accepts an empty list of routers
genSwaggerRoutesAnyRouters(tab, routers, controllers, r, acc) == acc

RECURSIVE genSwaggerRoutes(_, _, _, _, _)
\* the router loop of genSwaggerRoutes from router r on: each router's paths
\* replace def.paths; acc is [paths, err]
genSwaggerRoutes(tab, routers, controllers, r, acc) ==
  IF routers = <<>> THEN [paths |-> <<>>, err |-> Err("No Router Definitions Found", "")]
  ELSE IF r > Len(routers) \/ acc.err # NoError THEN acc
  ELSE genSwaggerRoutes(tab, routers, controllers, r + 1,
         genSwaggerPaths(tab, StripPath(routers[r].path), controllers, 1, 1,
                         [paths |-> <<>>, err |-> NoError]))

RECURSIVE ExpandLeaf(_)
\* the reference typeToJSON replaces by symtab[name].def under expandRefs when
\* it translates typeDesc, "" when there is none: union members get no options
ExpandLeaf(typeDesc) ==
  CASE typeDesc.kind = "array" -> ExpandLeaf(typeDesc.subs[1])
    [] typeDesc.kind = "ref" /\ typeDesc.name = "Array" ->
         IF typeDesc.subs = <<>> THEN "" ELSE ExpandLeaf(typeDesc.subs[1])
    [] typeDesc.kind = "ref" /\ typeDesc.name # "Array" ->
         IF maptypeDescName("", typeDesc.name) # Null
            /\ Has(maptypeDescName("", typeDesc.name), "ref")
         THEN typeDesc.name ELSE ""
    [] OTHER -> ""

\* res.description = <comment of the symbol> where res is symtab[n].def itself:
\* the assignment is made on the registry's object
describeDef(tab, n) ==
  IF n # "" /\ SymHas(tab, n) /\ SymGet(tab, n).def # Null
  THEN [tab EXCEPT ![SymIdx(tab, n)].def = SetField(@, "description", DocComment(n))]
  ELSE tab

\* the registry after typeToJSON(typeDesc,null,{expandRefs:true,...}); s is [tab, err]
expandCall(s, typeDesc) ==
  IF s.err # NoError THEN s
  ELSE IF typeToJSON(s.tab, typeDesc, <<>>, SwaggerOptions).err # NoError
  THEN [s EXCEPT !.err = typeToJSON(s.tab, typeDesc, <<>>, SwaggerOptions).err]
  ELSE [s EXCEPT !.tab = describeDef(s.tab, ExpandLeaf(typeDesc))]

RECURSIVE expandCalls(_, _, _)
\* the parameter loop of genSwaggerPaths from parameter k on, as to the registry
expandCalls(s, params, k) ==
  IF k > Len(params) \/ s.err # NoError THEN s
  ELSE expandCalls(expandCall(s, params[k].type), params, k + 1)

\* the registry after the body of genSwaggerPaths's inner loop for method
expandMethod(s, method) ==
  IF s.err # NoError THEN s
  ELSE IF method.returnType.kind # "absent"
          /\ typeToJSON(s.tab, method.returnType, <<>>, NoOptions).err # NoError
  THEN [s EXCEPT !.err = typeToJSON(s.tab, method.returnType, <<>>, NoOptions).err]
  ELSE IF ReturnTypename(method.returnType) = "Promise"
  THEN IF method.returnType.subs = <<>>
       THEN [s EXCEPT !.err = Err("TypeError", "typeArguments")]
       ELSE expandCalls(expandCall(s, method.returnType.subs[1]), method.methodParameters, 1)
  ELSE expandCalls(s, method.methodParameters, 1)

RECURSIVE expandPaths(_, _, _, _)
\* the registry after the loops of genSwaggerPaths from controller i, method j on
expandPaths(s, controllers, i, j) ==
  IF i > Len(controllers) \/ s.err # NoError THEN s
  ELSE IF j > Len(controllers[i].methods) THEN expandPaths(s, controllers, i + 1, 1)
  ELSE expandPaths(expandMethod(s, controllers[i].methods[j]), controllers, i, j + 1)

RECURSIVE expandRoutes(_, _, _, _)
\* the registry after genSwaggerRoutes from router r on
expandRoutes(s, routers, controllers, r) ==
  IF r > Len(routers) \/ s.err # NoError THEN s
  ELSE expandRoutes(expandPaths(s, controllers, 1, 1), routers, controllers, r + 1)

\* the definitions map holds the objects symtab[key].def
AliasedDefinitions(defs, tab) ==
  [i \in DOMAIN defs |-> [key |-> defs[i].key, value |-> SymGet(tab, defs[i].key).def]]

\* the route module genRoutes writes
genRoutes(eps, controllers) ==
  [routers |-> [j \in DOMAIN controllers |-> controllers[j].className],
   handlers |-> [j \in DOMAIN eps |->
                   [className |-> eps[j].className,
                    rfunc |-> eps[j].type,
                    path |-> <<"/">> \o RouteSegment(eps[j]),
                    method |-> eps[j].decorates,
                    input |-> RouteInputForm(eps[j].type)]],
   mounts |-> [j \in DOMAIN controllers |->
                 [path |-> <<"/">> \o StripPath(controllers[j].path),
                  className |-> controllers[j].className]]]

(***************************************************************************)
(* The source programs of the model: the top-level declarations the        *)
(* traversal may meet, in any order and with repetition.                   *)
(***************************************************************************)
TNumber == Kw("number")

TString == Kw("string")

Member(n, t, tags) == [name |-> n, type |-> t, optional |-> FALSE, tags |-> tags]

MinimumTag == [name |-> "minimum", text |-> "1"]

MemberLists ==
  { <<>>,
    <<Member("x", TNumber, <<>>)>>,
    <<Member("x", TNumber, <<MinimumTag>>)>>,
    <<Member("x", Ref("A"), <<>>)>>,
    <<Member("x", Ref("B"), <<>>)>> }

InterfaceDecls ==
  { [kind |-> "interface", name |-> n, members |-> ms] : n \in {"A", "B"}, ms \in MemberLists }
  \cup { [kind |-> "interface", name |-> "Function", members |-> <<>>] }

Param(n, t) == [id |-> n, type |-> t]

Method(n, verb, args, params, ret) ==
  [name |-> n, decorator |-> verb, call |-> TRUE, args |-> args, params |-> params, ret |-> ret]

StringArg(text) == [kind |-> "StringLiteral", text |-> <<Quote>> \o text \o <<Quote>>]

BaseParams == <<Param("a", TNumber)>>

ParamTypes ==
  { Ref("A"), Arr(Ref("A")), Union(<<Ref("A"), TString>>), Ref("Function") }

MethodLists ==
  { <<Method("m", v, <<>>, BaseParams, TString)>> : v \in Verbs }
  \cup { <<Method("m", "get", <<StringArg(<<"p">>)>>, BaseParams, TString)>> }
  \cup { <<Method("m", "get", <<>>, <<Param("a", t)>>, TString)>> : t \in ParamTypes }
  \cup { <<Method("m", "get", <<>>, <<>>, r)>> : r \in {Absent, Ref("A")} }
  \cup { <<Method("m", "get", <<>>, BaseParams, TString),
           Method("n", "post", <<>>, BaseParams, Ref("B"))>> }

Class(n, d, args, ms) ==
  [kind |-> "class", name |-> n, decorator |-> d, call |-> TRUE, args |-> args, methods |-> ms]

BaseMethods == <<Method("m", "get", <<>>, BaseParams, TString)>>

ClassDecls ==
  { Class("C", "controller", <<>>, ms) : ms \in MethodLists }
  \cup { Class("C", "controller", <<StringArg(<<"/", "c">>)>>, BaseMethods) }
  \cup { Class("A", "controller", <<>>, <<>>) }
  \cup { Class("R", "router", args, <<>>) : args \in {<<>>, <<StringArg(<<"/", "api">>)>>} }
  \cup { Class("D", "other", <<>>, ms) :
           ms \in {BaseMethods, <<Method("m", "get", <<>>, <<Param("a", Ref("A"))>>, TString)>>} }
  \cup { Class("A", "", <<>>, <<>>), Class("D", "", <<>>, BaseMethods) }

Head3(node) ==
  [kind |-> node.kind, name |-> node.name,
   decorator |-> IF node.kind = "class" THEN node.decorator ELSE ""]

(***************************************************************************)
(* The run of generate as a state machine.  pc is the position in          *)
(* generate/genSources: "visit" (the loop over the source files),          *)
(* "plist" (the loop of genSources over the endpoints, at items[idx]),     *)
(* "swagger", "routes", "done", or "aborted" (an exception left generate). *)
(* run counts the calls of generate the process has made.                  *)
(***************************************************************************)
Init ==
  /\ pc = "visit"
  /\ symtab = <<>>
  /\ endpoints = <<>>
  /\ visited = <<>>
  /\ idx = 1
  /\ part3 = <<>>
  /\ definitions = <<>>
  /\ checkFile = <<>>
  /\ swaggerFile = <<>>
  /\ routesFile = <<>>
  /\ log = <<>>
  /\ error = NoError
  /\ run = 1

\* visit(node) for a top-level interface declaration
VisitInterface(node) ==
  /\ pc = "visit"
  /\ Len(visited) < MaxDecls
  /\ \E r \in {visitInterface(symtab, checkFile, node)} :
         /\ symtab' = r.tab
         /\ checkFile' = r.file
         /\ error' = r.err
         /\ pc' = IF r.err # NoError THEN "aborted" ELSE "visit"
  /\ visited' = Append(visited, Head3(node))
  /\ UNCHANGED <<run, endpoints, idx, part3, definitions, swaggerFile, routesFile, log>>

\* visit(node) for a top-level class declaration
VisitClass(node) ==
  /\ pc = "visit"
  /\ Len(visited) < MaxDecls
  /\ \E r \in {visitClass(symtab, endpoints, log, node)} :
         /\ symtab' = r.tab
         /\ endpoints' = r.endpoints
         /\ log' = r.log
  /\ visited' = Append(visited, Head3(node))
  /\ UNCHANGED <<run, pc, idx, part3, definitions, checkFile, swaggerFile, routesFile, error>>

\* the source files are exhausted: connectMethods(endpoints)
ConnectMethods ==
  /\ pc = "visit"
  /\ \E r \in {connectMethods(endpoints, 1, [tab |-> symtab, err |-> NoError])} :
         /\ symtab' = r.tab
         /\ error' = r.err
         /\ pc' = IF r.err # NoError THEN "aborted" ELSE "plist"
  /\ UNCHANGED <<run, endpoints, visited, idx, part3, definitions, checkFile, swaggerFile,
                 routesFile, log>>

\* one iteration of the loop of genSources over items
GenMethodEntry ==
  /\ pc = "plist"
  /\ idx <= Len(endpoints)
  /\ \E r \in {parameterListToJSON(symtab, endpoints[idx])} :
         /\ symtab' = r.tab
         /\ error' = r.err
         /\ pc' = IF r.err # NoError THEN "aborted" ELSE "plist"
         /\ idx' = IF r.err # NoError THEN idx ELSE idx + 1
         /\ part3' = IF r.err # NoError THEN part3
                     ELSE Append(part3,
                            genMethodEntry(r.x.className, r.x.method, r.x.parameterNames,
                              SetField(r.x.schema, "required", r.x.parameterNames)))
  /\ UNCHANGED <<run, endpoints, visited, definitions, checkFile, swaggerFile, routesFile, log>>

\* symtabToSchemaDefinitions and the three writes to __check.js
WriteCheck ==
  /\ pc = "plist"
  /\ idx > Len(endpoints)
  /\ \E r \in {symtabToSchemaDefinitions(symtab)} :
         /\ symtab' = r.tab
         /\ definitions' = r.res
         /\ checkFile' = checkFile \o <<[kind |-> "part1"],
                                        [kind |-> "part2", definitions |-> r.res],
                                        [kind |-> "part3", entries |-> part3]>>
  /\ pc' = "swagger"
  /\ UNCHANGED <<run, endpoints, visited, idx, part3, swaggerFile, routesFile, log, error>>

\* genSwaggerPreamble .. swaggerFile.write
WriteSwagger ==
  /\ pc = "swagger"
  /\ \E r \in {genSwaggerRoutes(symtab, symtabToRouterDefinitions(symtab),
                                symtabToControllerDefinitions(symtab), 1,
                                [paths |-> <<>>, err |-> NoError])} :
      \E w \in {expandRoutes([tab |-> symtab, err |-> NoError],
                             symtabToRouterDefinitions(symtab),
                             symtabToControllerDefinitions(symtab), 1)} :
         /\ error' = r.err
         /\ pc' = IF r.err # NoError THEN "aborted" ELSE "routes"
         /\ symtab' = w.tab
         /\ definitions' = AliasedDefinitions(definitions, w.tab)
         /\ swaggerFile' = IF r.err # NoError THEN swaggerFile
                           ELSE Append(swaggerFile,
                                  [openapi |-> "3.0.0", paths |-> r.paths,
                                   components |->
                                     [schemas |-> AliasedDefinitions(definitions, w.tab)]])
  /\ UNCHANGED <<run, endpoints, visited, idx, part3, checkFile, routesFile, log>>

\* genRoutes
WriteRoutes ==
  /\ pc = "routes"
  /\ routesFile' = Append(routesFile, genRoutes(endpoints, symtabToControllerDefinitions(symtab)))
  /\ pc' = "done"
  /\ UNCHANGED <<run, symtab, endpoints, visited, idx, part3, definitions, checkFile, swaggerFile,
                 log, error>>

Next ==
  \/ \E node \in InterfaceDecls : VisitInterface(node)
  \/ \E node \in ClassDecls : VisitClass(node)
  \/ ConnectMethods
  \/ GenMethodEntry
  \/ WriteCheck
  \/ WriteSwagger
  \/ WriteRoutes

Spec == Init /\ [][Next]_vars

(***************************************************************************)
(* A second set of source programs: the Widgets scenario of the            *)
(* documentation (a controller whose methods return Promise<Widget[]>),    *)
(* with two routers, a malformed tag block, union members and decorator    *)
(* arguments that are not literals.                                        *)
(***************************************************************************)
TagMember(n, t, tags) == [name |-> n, type |-> t, optional |-> FALSE, tags |-> tags]

\* @type { : a type expression doctrine.parse rejects
MalformedTag == [name |-> "type", text |-> "{"]

WidgetMembers == <<Member("id", TNumber, <<>>), Member("name", TString, <<>>)>>

WidgetInterfaceDecls ==
  { [kind |-> "interface", name |-> "Widget", members |-> WidgetMembers],
    [kind |-> "interface", name |-> "A", members |-> <<Member("x", Ref("Widget"), <<>>)>>],
    [kind |-> "interface", name |-> "A",
     members |-> <<Member("x", Union(<<Ref("Widget"), TString>>), <<>>)>>],
    [kind |-> "interface", name |-> "A",
     members |-> <<TagMember("x", TNumber, <<MalformedTag>>)>>] }

PromiseOf(t) == RefArgs("Promise", <<t>>)

ObjectArg == [kind |-> "ObjectLiteralExpression", text |-> <<"{", "}">>]

FunctionArg == [kind |-> "FunctionExpression", text |-> <<"function">>]

TwoParams == <<Param("a", TNumber), Param("b", TString)>>

\* a parameter list with a parameter of type Function, which has no schema
CallbackParams == <<Param("a", TNumber), Param("f", Ref("Function")), Param("b", TString)>>

WidgetMethodLists ==
  { <<Method("list", "get", <<>>, <<>>, r)>> :
      r \in {PromiseOf(Arr(Ref("Widget"))), PromiseOf(Ref("A")), Ref("Widget"), TString} }
  \cup { <<Method("add", "post", <<>>, TwoParams, TString)>>,
         <<Method("on", "post", <<>>, CallbackParams, TString)>>,
         <<Method("add", "post", <<StringArg(<<"p">>), ObjectArg>>, TwoParams, TString)>>,
         <<Method("add", "post", <<FunctionArg, StringArg(<<"p">>)>>, TwoParams, TString)>> }

WidgetClassDecls ==
  { Class("Widgets", "controller", <<StringArg(<<"/", "widgets">>)>>, ms) : ms \in WidgetMethodLists }
  \cup { Class("Widgets", "controller", <<StringArg(<<"/", "widgets">>), ObjectArg>>,
               <<Method("add", "post", <<>>, TwoParams, TString)>>) }
  \cup { Class("R", "router", <<StringArg(<<"/", "api">>)>>, <<>>),
         Class("S", "router", <<>>, <<>>) }

\* the traversal has visited the default library file, which declares the
\* interface Promise (its members are method signatures, which visit2 skips)
InitWidgets ==
  /\ pc = "visit"
  /\ symtab = <<TypeEntry("Promise", DocComment("Promise"))>>
  /\ endpoints = <<>>
  /\ visited = <<>>
  /\ idx = 1
  /\ part3 = <<>>
  /\ definitions = <<>>
  /\ checkFile = <<>>
  /\ swaggerFile = <<>>
  /\ routesFile = <<>>
  /\ log = <<>>
  /\ error = NoError
  /\ run = 1

NextWidgets ==
  \/ \E node \in WidgetInterfaceDecls : VisitInterface(node)
  \/ \E node \in WidgetClassDecls : VisitClass(node)
  \/ ConnectMethods
  \/ GenMethodEntry
  \/ WriteCheck
  \/ WriteSwagger
  \/ WriteRoutes

SpecWidgets == InitWidgets /\ [][NextWidgets]_vars

(***************************************************************************)
(* A third set of source programs: two source files that export an         *)
(* interface of the same name.  The registry is keyed by name, so the      *)
(* declaration visited last is the entry, while a type reference resolves  *)
(* to the symbol of the declaration in scope, whose doc is DocComment.     *)
(***************************************************************************)
OtherFileDecl(n, ms) == [kind |-> "interface", name |-> n, members |-> ms, doc |-> <<"other">>]

FileInterfaceDecls ==
  { [kind |-> "interface", name |-> n, members |-> <<Member("x", TNumber, <<>>)>>] : n \in {"A", "B"} }
  \cup { OtherFileDecl("A", <<Member("y", TString, <<>>)>>) }

FileMethodLists ==
  { <<Method("m", v, <<>>, <<Param("a", Ref("A"))>>, r)>> :
      v \in {"get", "post"}, r \in {TString, PromiseOf(Ref("A")), PromiseOf(Arr(Ref("B")))} }
  \cup { <<Method("m", "get", <<>>, <<Param("a", Arr(Ref("A")))>>, TString)>> }

FileClassDecls ==
  { Class("C", "controller", <<>>, ms) : ms \in FileMethodLists }
  \cup { Class("R", "router", <<StringArg(<<"/", "api">>)>>, <<>>) }

NextFiles ==
  \/ \E node \in FileInterfaceDecls : VisitInterface(node)
  \/ \E node \in FileClassDecls : VisitClass(node)
  \/ ConnectMethods
  \/ GenMethodEntry
  \/ WriteCheck
  \/ WriteSwagger
  \/ WriteRoutes

SpecFiles == Init /\ [][NextFiles]_vars

(***************************************************************************)
(* A fourth set of source programs: interfaces whose property carries a    *)
(* block of minimum, maximum and type tags, on types that translate to a   *)
(* typed fragment, a null type, a bare reference and unions of them.       *)
(***************************************************************************)
Minimum5Tag == [name |-> "minimum", text |-> "5"]

Maximum5Tag == [name |-> "maximum", text |-> "5"]

IntegerTag == [name |-> "integer", text |-> ""]

TagLists ==
  { <<>>, <<MinimumTag>>, <<IntegerTag>>,
    <<MinimumTag, MinimumTag>>, <<IntegerTag, IntegerTag>>,
    <<MinimumTag, Minimum5Tag>>, <<Minimum5Tag, MinimumTag>>,
    <<MinimumTag, Maximum5Tag>>, <<Maximum5Tag, MinimumTag>>,
    <<MinimumTag, IntegerTag>>, <<IntegerTag, MinimumTag>> }

TagTypes ==
  { TNumber, Kw("null"), Ref("B"), Union(<<TNumber, Ref("B")>>), Union(<<Ref("B"), Ref("B")>>) }

TagInterfaceDecls ==
  { [kind |-> "interface", name |-> "A", members |-> <<TagMember("x", t, tags)>>] :
      t \in TagTypes, tags \in TagLists }

TagClassDecls ==
  { Class("C", "controller", <<>>, <<Method("m", "get", <<>>, <<Param("a", Ref("A"))>>, TString)>>),
    Class("R", "router", <<StringArg(<<"/", "api">>)>>, <<>>) }

NextTags ==
  \/ \E node \in TagInterfaceDecls : VisitInterface(node)
  \/ \E node \in TagClassDecls : VisitClass(node)
  \/ ConnectMethods
  \/ GenMethodEntry
  \/ WriteCheck
  \/ WriteSwagger
  \/ WriteRoutes

SpecTags == Init /\ [][NextTags]_vars

(***************************************************************************)
(* Several calls of generate in one process.  symtab is a variable of the  *)
(* module and is assigned nowhere but at load time; endpoints and the      *)
(* emitters' buffers are locals of a call, and each call is given its own  *)
(* three streams.                                                          *)
(***************************************************************************)
Generate ==
  /\ pc \in {"done", "aborted"}
  /\ run < MaxRuns
  /\ run' = run + 1
  /\ pc' = "visit"
  /\ endpoints' = <<>>
  /\ visited' = <<>>
  /\ idx' = 1
  /\ part3' = <<>>
  /\ definitions' = <<>>
  /\ checkFile' = <<>>
  /\ swaggerFile' = <<>>
  /\ routesFile' = <<>>
  /\ log' = <<>>
  /\ error' = NoError
  /\ UNCHANGED symtab

RunInterfaceDecls ==
  { [kind |-> "interface", name |-> "A", members |-> <<Member("x", TNumber, <<>>)>>],
    [kind |-> "interface", name |-> "B", members |-> <<Member("x", Ref("A"), <<>>)>>] }

RunClassDecls ==
  { Class("C", "controller", <<>>, <<Method("m", "get", <<>>, <<Param("a", t)>>, TString)>>) :
      t \in {TNumber, Ref("A")} }
  \cup { Class("R", "router", <<StringArg(<<"/", "api">>)>>, <<>>) }

NextRuns ==
  \/ \E node \in RunInterfaceDecls : VisitInterface(node)
  \/ \E node \in RunClassDecls : VisitClass(node)
  \/ ConnectMethods
  \/ GenMethodEntry
  \/ WriteCheck
  \/ WriteSwagger
  \/ WriteRoutes
  \/ Generate

SpecRuns == Init /\ [][NextRuns]_vars

(***************************************************************************)
(* Properties.  Reachability is computed here from the registry and the    *)
(* endpoint list alone, without the marking operators.                     *)
(***************************************************************************)
RECURSIVE RefNames(_)
\* the names a type node refers to through array-element, union-member,
\* reference and type-argument edges
RefNames(t) ==
  CASE t.kind = "ref" -> {t.name} \cup UNION {RefNames(t.subs[i]) : i \in DOMAIN t.subs}
    [] t.kind \in {"array", "union"} -> UNION {RefNames(t.subs[i]) : i \in DOMAIN t.subs}
    [] OTHER -> {}

\* the names the members of registry entry n refer to
MemberNames(tab, n) ==
  IF SymHas(tab, n)
  THEN UNION {RefNames(SymGet(tab, n).members[i].type) : i \in DOMAIN SymGet(tab, n).members}
  ELSE {}

RECURSIVE Closure(_, _)
\* the names reachable from the names S through member edges
Closure(tab, S) ==
  IF UNION {MemberNames(tab, n) : n \in S} \subseteq S THEN S
  ELSE Closure(tab, S \cup UNION {MemberNames(tab, n) : n \in S})

\* a parameter type that has a schema (its translation is not null)
HasSchema(t) ==
  typeToJSON(symtab, t, <<>>, NoOptions).err = NoError
  /\ typeToJSON(symtab, t, <<>>, NoOptions).val # Null

\* names referred to by the return type and by every parameter of endpoint e
RootsOf(e) ==
  RefNames(e.returnType)
  \cup UNION {RefNames(e.methodParameters[p].type) : p \in DOMAIN e.methodParameters}

\* names referred to by the return type and by the parameters of e that have a schema
SchemaRootsOf(e) ==
  RefNames(e.returnType)
  \cup UNION {IF HasSchema(e.methodParameters[p].type)
              THEN RefNames(e.methodParameters[p].type) ELSE {} :
              p \in DOMAIN e.methodParameters}

AllRoots == UNION {RootsOf(endpoints[k]) : k \in DOMAIN endpoints}

SchemaRoots == UNION {SchemaRootsOf(endpoints[k]) : k \in DOMAIN endpoints}

IsTypeDecl(n) == SymHas(symtab, n) /\ SymGet(symtab, n).type = "type"

DefKeys == {definitions[i].key : i \in DOMAIN definitions}

\* the marking pass is over and the definitions map has been emitted
Emitted == \E i \in DOMAIN checkFile : checkFile[i].kind = "part2"

C2_UnreachableTypesNotEmitted ==
  \A i \in DOMAIN symtab :
    (symtab[i].type = "type" /\ symtab[i].key \notin Closure(symtab, AllRoots))
      => (~symtab[i].relevant /\ symtab[i].key \notin DefKeys)

\* a run that emitted some type and left out a registered, unreachable one
C2_Witness ==
  /\ Emitted
  /\ DefKeys # {}
  /\ \E i \in DOMAIN symtab :
       symtab[i].type = "type" /\ symtab[i].key \notin Closure(symtab, AllRoots)

\* registry entry n has a member that leads back to n
OnCycle(tab, n) == n \in Closure(tab, MemberNames(tab, n))

\* endpoint e reaches a type that lies on a cycle of member edges
ReachesCycle(e) == \E n \in Closure(symtab, RootsOf(e)) : OnCycle(symtab, n)

\* C3: the marking of an endpoint that reaches a cyclic type terminates (it
\* does not exhaust the call stack), and leaves the types it reaches relevant.
C3_CyclicMarkingTerminates ==
  \A k \in DOMAIN endpoints :
    (pc # "visit" /\ ReachesCycle(endpoints[k])) =>
      /\ ~(pc = "aborted" /\ idx = k /\ error.kind = "RangeError")
      /\ (idx > k => \A n \in Closure(symtab, RootsOf(endpoints[k])) :
                        SymHas(symtab, n) => SymGet(symtab, n).relevant)

\* endpoint e's class is not a controller of the registry
Unattached(e) == ~(SymHas(symtab, e.className) /\ SymGet(symtab, e.className).type = "controller")

\* C4: an endpoint whose controller was never declared does not make the run
\* fail and appears in no artifact: no validator entry, no route handler.
C4_UnattachedEndpointDropped ==
  \A k \in DOMAIN endpoints :
    (pc # "visit" /\ Unattached(endpoints[k])) =>
      /\ ~(pc = "aborted" /\ error = Err("TypeError", "push"))
      /\ \A i \in DOMAIN checkFile :
           checkFile[i].kind = "part3" =>
             \A j \in DOMAIN checkFile[i].entries :
               checkFile[i].entries[j].key # <<endpoints[k].className, ".", endpoints[k].decorates>>
      /\ \A r \in DOMAIN routesFile : \A h \in DOMAIN routesFile[r].handlers :
           routesFile[r].handlers[h].className # endpoints[k].className

EndsWith(s, t) == Len(t) <= Len(s) /\ SubSeq(s, Len(s) - Len(t) + 1, Len(s)) = t

\* C5: the document's path of an attached endpoint ends with the path segment
\* under which the routes register the endpoint's handler.
C5_DocumentPathIsRoutePath ==
  pc = "done" =>
    \A r \in DOMAIN routesFile : \A h \in DOMAIN routesFile[r].handlers :
      (SymHas(symtab, routesFile[r].handlers[h].className)
       /\ SymGet(symtab, routesFile[r].handlers[h].className).type = "controller")
        => \E d \in DOMAIN swaggerFile : \E i \in DOMAIN swaggerFile[d].paths :
             /\ swaggerFile[d].paths[i].value.op.operationId = routesFile[r].handlers[h].method
             /\ EndsWith(swaggerFile[d].paths[i].key, routesFile[r].handlers[h].path)

\* the verb rule: query for get and put, body for post, all and delete
InputLocation(verb) == IF verb \in {"get", "put"} THEN "query" ELSE "body"

\* C6: every parameter of a document operation is placed by the verb rule, and
\* every route handler reads req.query or req.body by the same rule.
C6_InputLocationAgrees ==
  /\ \A d \in DOMAIN swaggerFile : \A i \in DOMAIN swaggerFile[d].paths :
       /\ swaggerFile[d].paths[i].value.verb \in {"get", "post", "put", "delete", "all"}
       /\ \A p \in DOMAIN swaggerFile[d].paths[i].value.op.parameters :
            swaggerFile[d].paths[i].value.op.parameters[p].in
              = InputLocation(swaggerFile[d].paths[i].value.verb)
  /\ \A r \in DOMAIN routesFile : \A h \in DOMAIN routesFile[r].handlers :
       /\ routesFile[r].handlers[h].rfunc \in {"get", "post", "put", "delete", "all"}
       /\ routesFile[r].handlers[h].input = InputLocation(routesFile[r].handlers[h].rfunc)

\* a finished run with a put endpoint documented in query and read from req.query
C6_Witness ==
  /\ pc = "done"
  /\ \E d \in DOMAIN swaggerFile : \E i \in DOMAIN swaggerFile[d].paths :
       /\ swaggerFile[d].paths[i].value.verb = "put"
       /\ swaggerFile[d].paths[i].value.op.parameters # <<>>
       /\ swaggerFile[d].paths[i].value.op.parameters[1].in = "query"
  /\ \E r \in DOMAIN routesFile : \E h \in DOMAIN routesFile[r].handlers :
       routesFile[r].handlers[h].rfunc = "put" /\ routesFile[r].handlers[h].input = "query"

\* two controller declarations of one class name have been visited
DuplicateController ==
  \E i, j \in DOMAIN visited :
    /\ i < j
    /\ visited[i].kind = "class" /\ visited[i].decorator = "controller"
    /\ visited[j].kind = "class" /\ visited[j].decorator = "controller"
    /\ visited[i].name = visited[j].name

\* C7: once two controllers of one name are declared the run is aborted with
\* the duplicate error and nothing has been written to any output.
C7_DuplicateControllerFatal ==
  DuplicateController =>
    /\ pc = "aborted"
    /\ error.kind = "multiple references to same class"
    /\ checkFile = <<>> /\ swaggerFile = <<>> /\ routesFile = <<>>

\* C8: a step that declares a type (an interface or an undecorated class)
\* under a name already in the registry aborts and leaves the registry as it was.
C8_DeclareTypeRejectsDuplicate ==
  [][(/\ pc = "visit"
      /\ Len(visited') = Len(visited) + 1
      /\ visited'[Len(visited')].decorator = ""
      /\ SymHas(symtab, visited'[Len(visited')].name))
       => (symtab' = symtab /\ pc' = "aborted")]_vars

\* some endpoint parameter refers to a name that is not in the registry
UndeclaredParameterType ==
  \E k \in DOMAIN endpoints : \E p \in DOMAIN endpoints[k].methodParameters :
    \E n \in RefNames(endpoints[k].methodParameters[p].type) : ~SymHas(symtab, n)

\* C9: after pass 1, a run with an endpoint parameter of an undeclared type
\* never gets past the marking and has written nothing to any output.
C9_UndefinedTypeAbortsBeforeWrites ==
  (pc # "visit" /\ UndeclaredParameterType) =>
    /\ pc \in {"plist", "aborted"}
    /\ checkFile = <<>> /\ swaggerFile = <<>> /\ routesFile = <<>>

\* C10: an endpoint with no return type does not stop the run, and the
\* document of a finished run gives its operation a 204 response and no 200.
C10_AbsentReturnGives204 ==
  \A k \in DOMAIN endpoints :
    endpoints[k].returnType.kind = "absent" =>
      /\ ~(pc = "aborted" /\ idx = k /\ error = Err("TypeError", "constructor"))
      /\ (pc = "done" /\ ~Unattached(endpoints[k])) =>
           \E d \in DOMAIN swaggerFile : \E i \in DOMAIN swaggerFile[d].paths :
             /\ swaggerFile[d].paths[i].value.op.operationId = endpoints[k].decorates
             /\ swaggerFile[d].paths[i].value.op.responses[1].key = "204"

RECURSIVE HasRef(_)
\* schema fragment s holds a $ref, at any depth
HasRef(s) ==
  \/ Has(s, "ref")
  \/ Has(s, "items") /\ HasRef(s.items)
  \/ Has(s, "oneOf") /\ \E i \in DOMAIN s.oneOf : HasRef(s.oneOf[i])
  \/ Has(s, "properties") /\ \E i \in DOMAIN s.properties : HasRef(s.properties[i].value)

\* C11: no 200 response schema of the written document holds a $ref, at any depth.
C11_ResponseSchemaSelfContained ==
  \A d \in DOMAIN swaggerFile : \A i \in DOMAIN swaggerFile[d].paths :
    \A r \in DOMAIN swaggerFile[d].paths[i].value.op.responses :
      swaggerFile[d].paths[i].value.op.responses[r].key = "200"
        => ~HasRef(swaggerFile[d].paths[i].value.op.responses[r].value.schema)

\* the last endpoint named n: the one whose path entry the document keeps
LastNamed(n) ==
  endpoints[CHOOSE k \in DOMAIN endpoints :
              /\ endpoints[k].decorates = n
              /\ \A j \in DOMAIN endpoints : endpoints[j].decorates = n => j <= k]

IsPromise(t) == t.kind = "ref" /\ t.name = "Promise" /\ t.subs # <<>>

\* the schema of the documentation's scenario, as the documentation gives it
WidgetSchema ==
  [type |-> "object",
   properties |-> <<[key |-> "id", value |-> [type |-> "number"]],
                    [key |-> "name", value |-> [type |-> "string"]]>>,
   required |-> <<"id", "name">>]

WidgetListSchema == [type |-> "array", items |-> WidgetSchema]

\* the same with the description every fragment of a named or array type
\* carries: the documentation comment of its symbol, empty when there is none
WidgetListSchemaDescribed ==
  [type |-> "array",
   items |-> SetField(WidgetSchema, "description", <<>>),
   description |-> <<>>]

\* the path entry e documents an endpoint that returns Promise<Widget[]>
ListsWidgets(e) ==
  /\ IsPromise(LastNamed(e.op.operationId).returnType)
  /\ LastNamed(e.op.operationId).returnType.subs[1] = Arr(Ref("Widget"))

\* the 200 response of path entry e carries schema
Responds200(e, schema) ==
  e.op.responses = <<[key |-> "200",
                      value |-> [description |-> "Successful response", schema |-> schema]]>>

RECURSIVE ExpectedProperties(_, _)
\* the properties of the parameters from k on that have a schema, in order
ExpectedProperties(params, k) ==
  IF k > Len(params) THEN <<>>
  ELSE IF HasSchema(params[k].type)
  THEN <<[key |-> params[k].id,
          value |-> typeToJSON(symtab, params[k].type, <<>>, NoOptions).val]>>
       \o ExpectedProperties(params, k + 1)
  ELSE ExpectedProperties(params, k + 1)

\* one property for every parameter from k on, whatever its translation
AllProperties(params) ==
  [k \in DOMAIN params |->
     [key |-> params[k].id,
      value |-> typeToJSON(symtab, params[k].type, <<>>, NoOptions).val]]

ParamIds(params) == [k \in DOMAIN params |-> params[k].id]

\* the validator entries written to __check.js are those of the endpoints, in order
EntriesOf(i) == IF checkFile[i].kind = "part3" THEN checkFile[i].entries ELSE <<>>

\* C13 (as amended): the validator schema of an endpoint has one property for
\* each parameter whose translation is not null, keyed by the parameter's name
\* and holding its fragment, and required lists all parameter names in order.
C13_ValidatorSchema ==
  \A i \in DOMAIN checkFile : \A j \in DOMAIN EntriesOf(i) :
    /\ j \in DOMAIN endpoints
    /\ EntriesOf(i)[j].key = <<endpoints[j].className, ".", endpoints[j].decorates>>
    /\ EntriesOf(i)[j].schema.type = "object"
    /\ EntriesOf(i)[j].schema.properties = ExpectedProperties(endpoints[j].methodParameters, 1)
    /\ EntriesOf(i)[j].schema.required = ParamIds(endpoints[j].methodParameters)

\* C13 as stated: one property for every parameter
C13_PropertyPerParameter ==
  \A i \in DOMAIN checkFile : \A j \in DOMAIN EntriesOf(i) :
    /\ EntriesOf(i)[j].schema.properties = AllProperties(endpoints[j].methodParameters)
    /\ EntriesOf(i)[j].schema.required = ParamIds(endpoints[j].methodParameters)

\* a written validator entry for the parameters (a: number, b: string)
C13_Witness ==
  \E i \in DOMAIN checkFile : \E j \in DOMAIN EntriesOf(i) :
    /\ endpoints[j].methodParameters = TwoParams
    /\ EntriesOf(i)[j].schema.required = <<"a", "b">>
    /\ EntriesOf(i)[j].schema.properties = <<[key |-> "a", value |-> [type |-> "number"]],
                                             [key |-> "b", value |-> [type |-> "string"]]>>

\* number of arguments of a call of a generated function
MaxArgs == 3

JsValues == {JsNumber("1"), JsString("x")}

\* the argument lists of at most MaxArgs arguments
ArgLists == UNION {[1..n -> JsValues] : n \in 0..MaxArgs}

\* C14: the emitted argsToSchema of an endpoint maps an argument list a to the
\* object with, for each parameter in order, the parameter's name holding the
\* argument at the parameter's position; for (a: number, b: string) the object
\* of [1, "x"] is {a:1, b:"x"} and validates, and {a:"x", b:"x"} does not.
C14_ArgsToSchema ==
  \A i \in DOMAIN checkFile : \A j \in DOMAIN EntriesOf(i) :
    /\ \A a \in ArgLists :
         RunArgsToSchema(EntriesOf(i)[j].argsToSchema, a)
           = [k \in DOMAIN endpoints[j].methodParameters |->
                [key |-> endpoints[j].methodParameters[k].id,
                 value |-> IF k <= Len(a) THEN a[k] ELSE Undefined]]
    /\ endpoints[j].methodParameters = TwoParams =>
         /\ RunArgsToSchema(EntriesOf(i)[j].argsToSchema, <<JsNumber("1"), JsString("x")>>)
              = <<[key |-> "a", value |-> JsNumber("1")], [key |-> "b", value |-> JsString("x")]>>
         /\ AjvValidate(EntriesOf(i)[j].schema,
              RunArgsToSchema(EntriesOf(i)[j].argsToSchema, <<JsNumber("1"), JsString("x")>>))
         /\ ~AjvValidate(EntriesOf(i)[j].schema,
              <<[key |-> "a", value |-> JsString("x")], [key |-> "b", value |-> JsString("x")]>>)

\* a written validator entry for (a: number, b: string) whose argsToSchema has
\* the two statements o['a'] = a[0] and o['b'] = a[1]
C14_Witness ==
  \E i \in DOMAIN checkFile : \E j \in DOMAIN EntriesOf(i) :
    /\ endpoints[j].methodParameters = TwoParams
    /\ EntriesOf(i)[j].argsToSchema = <<[key |-> "a", index |-> 0], [key |-> "b", index |-> 1]>>

IsRouterDecl(v) == v.kind = "class" /\ v.decorator = "router"

\* two Router classes of different names have been declared
TwoRouters ==
  \E i, j \in DOMAIN visited :
    IsRouterDecl(visited[i]) /\ IsRouterDecl(visited[j]) /\ visited[i].name # visited[j].name

\* the name of the Router class declared first
FirstRouter ==
  visited[CHOOSE i \in DOMAIN visited :
            IsRouterDecl(visited[i]) /\ \A j \in DOMAIN visited : IsRouterDecl(visited[j]) => i <= j].name

StartsWith(s, t) == Len(t) <= Len(s) /\ SubSeq(s, 1, Len(t)) = t

\* C15: in a finished run with two routers, every path of the document starts
\* with the prefix of the router declared first, and no endpoint has two paths.
C15_FirstRouterPrefixUsed ==
  (pc = "done" /\ TwoRouters) =>
    \A d \in DOMAIN swaggerFile :
      /\ \A i \in DOMAIN swaggerFile[d].paths :
           StartsWith(swaggerFile[d].paths[i].key,
             <<"/">> \o StripPath(ClassDefinition(SymGet(symtab, FirstRouter)).path) \o <<"/">>)
      /\ \A i, j \in DOMAIN swaggerFile[d].paths :
           swaggerFile[d].paths[i].value.op.operationId = swaggerFile[d].paths[j].value.op.operationId
             => i = j

\* a tag block that doctrine.parse rejects has been met on a member of an interface
MalformedTagBlockMet ==
  \E i \in DOMAIN checkFile :
    checkFile[i].kind = "tagSrc" /\ DoctrineParse(checkFile[i].src).err # NoError

\* C16: a tag block that fails to parse does not stop the run, and the member
\* that carries it is registered with its untagged fragment.
C16_MalformedTagNonFatal ==
  MalformedTagBlockMet =>
    /\ ~(pc = "aborted" /\ error.kind = "invalid JSDoc")
    /\ \E i \in DOMAIN symtab : \E m \in DOMAIN symtab[i].members :
         symtab[i].members[m].name = "x" /\ symtab[i].members[m].desc = [type |-> "number"]

IsLiteralArg(arg) == arg.kind \in {"StringLiteral", "NumericLiteral", "Identifier"}

RECURSIVE LiteralArgs(_, _)
\* the literal arguments of args from k on, in order, a string without its quotes
LiteralArgs(args, k) ==
  IF k > Len(args) THEN <<>>
  ELSE IF ~IsLiteralArg(args[k]) THEN LiteralArgs(args, k + 1)
  ELSE <<IF args[k].kind = "StringLiteral" THEN StripQuotes(args[k].text) ELSE args[k].text>>
       \o LiteralArgs(args, k + 1)

\* C17: a step that visits a class registers an endpoint for each of its
\* verb-decorated methods, with the literal decorator arguments in order, and a
\* newly declared controller gets the literal arguments of its decorator,
\* whatever other arguments the decorators have.
C17_NonLiteralArgsDropped ==
  [][\A node \in WidgetClassDecls :
       VisitClass(node) =>
         /\ Len(endpoints') = Len(endpoints) + Len(node.methods)
         /\ \A k \in DOMAIN node.methods :
              endpoints'[Len(endpoints) + k].decoratorArgs = LiteralArgs(node.methods[k].args, 1)
         /\ (node.decorator = "controller" /\ ~SymHas(symtab, node.name))
              => /\ SymHas(symtab', node.name)
                 /\ SymGet(symtab', node.name).args = LiteralArgs(node.args, 1)]_vars

RECURSIVE MemberTranslations(_, _, _, _)
\* in member order from k on, the translation of each union member under
\* options, the members whose translation is null left out
MemberTranslations(tab, types, k, options) ==
  IF k > Len(types) THEN <<>>
  ELSE IF typeToJSON(tab, types[k], <<>>, options).val = Null
       THEN MemberTranslations(tab, types, k + 1, options)
       ELSE <<typeToJSON(tab, types[k], <<>>, options).val>>
            \o MemberTranslations(tab, types, k + 1, options)

\* C18: the schema saved for a property of union type is {oneOf: L}, L the
\* translations of the members, in order, under the options the property
\* itself was translated with (docRoot "#/components/schemas").
C18_UnionMembersUnderSameOptions ==
  \A i \in DOMAIN symtab : \A m \in DOMAIN symtab[i].members :
    symtab[i].members[m].type.kind = "union" =>
      symtab[i].members[m].desc =
        [oneOf |-> MemberTranslations(symtab, symtab[i].members[m].type.subs, 1,
                                      Options("#/components/schemas", FALSE))]

RelevantKeys(tab) == {tab[i].key : i \in {j \in DOMAIN tab : tab[j].relevant}}

ResolvedKeys(tab) == {tab[i].key : i \in {j \in DOMAIN tab : tab[j].def # Null}}

\* C19: a step that marks a type relevant or computes a definition is a step
\* of the second pass, taken when the loop over the source files has ended,
\* and once that loop has ended no step adds a declaration to the registry or
\* visits another declaration.
C19_TwoPassOrdering ==
  [][/\ RelevantKeys(symtab') # RelevantKeys(symtab) => pc = "plist"
     /\ ResolvedKeys(symtab') # ResolvedKeys(symtab) => pc = "plist"
     /\ pc # "visit" => (SymKeys(symtab') = SymKeys(symtab) /\ visited' = visited)]_vars

\* several declarations were registered and a type among them is marked
C19_Witness ==
  /\ Len(visited) >= 2
  /\ pc \in {"plist", "swagger", "routes", "done"}
  /\ \E i \in DOMAIN symtab : symtab[i].relevant /\ symtab[i].members # <<>>

OutputProduced == checkFile # <<>> \/ swaggerFile # <<>> \/ routesFile # <<>>

\* C20: an artifact has output only when the marking loop has ended and the
\* definitions are computed, and no step taken after an artifact has received
\* output changes a relevance flag.
C20_EmittersAfterMarking ==
  [][/\ OutputProduced' =>
          /\ pc' \in {"swagger", "routes", "done", "aborted"}
          /\ idx' > Len(endpoints')
     /\ OutputProduced => RelevantKeys(symtab') = RelevantKeys(symtab)]_vars

Defs(tab) == [i \in DOMAIN tab |-> tab[i].def]

\* C21: once the definitions map is computed, the steps of the document
\* emitter and of the route emitter leave every entry's resolved definition and
\* the whole definitions map unchanged.
C21_ReadOnlyAfterSchemaPass ==
  [][(pc = "swagger" \/ pc = "routes") =>
       (definitions' = definitions /\ Defs(symtab') = Defs(symtab))]_vars

\* the tag blocks the run has parsed, each the sequence of its tags
TagBlocks ==
  {DoctrineParse(checkFile[i].src).doc.tags :
     i \in {j \in DOMAIN checkFile : checkFile[j].kind = "tagSrc"
                                     /\ DoctrineParse(checkFile[j].src).err = NoError}}

\* the untagged fragments of the property types
BaseFragments ==
  {typeToJSON(symtab, t, <<>>, Options("#/components/schemas", FALSE)).val : t \in TagTypes}

Reverse(s) == [i \in DOMAIN s |-> s[Len(s) + 1 - i]]

DistinctTitles(tags) ==
  \A i, j \in DOMAIN tags : i # j => tags[i].title # tags[j].title

TypedLeaf(f) ==
  HasType(f) \/ (Has(f, "oneOf") /\ \E i \in DOMAIN f.oneOf : HasType(f.oneOf[i]))

TagIdempotent(f, tags) ==
  \A i \in DOMAIN tags : applyTag(applyTag(f, tags[i]), tags[i]) = applyTag(f, tags[i])

TagFrame(f, tags) == ~TypedLeaf(f) => applyTags(f, tags) = f

\* C22 (as amended): for every tag block the run applies and every fragment,
\* applying a tag twice gives what applying it once gives, a block whose tags
\* have pairwise distinct titles gives the same fragment in either order, and
\* a fragment with no typed leaf (a bare reference, a union of references, a
\* null type) is left unchanged.
C22_TagsIdempotentDistinctTitlesCommute ==
  \A tags \in TagBlocks : \A f \in BaseFragments :
    /\ TagIdempotent(f, tags)
    /\ DistinctTitles(tags) => applyTags(f, Reverse(tags)) = applyTags(f, tags)
    /\ TagFrame(f, tags)

\* C22 (as stated): the tags of any block give the same fragment in any order.
C22_TagsIdempotentAnyOrder ==
  \A tags \in TagBlocks : \A f \in BaseFragments :
    /\ TagIdempotent(f, tags)
    /\ applyTags(f, Reverse(tags)) = applyTags(f, tags)
    /\ TagFrame(f, tags)

\* a block of two tags of distinct titles was applied to a union with a typed
\* leaf and a reference: the typed leaf carries both, the reference neither
C22_Witness ==
  /\ \E tags \in TagBlocks : Len(tags) = 2 /\ DistinctTitles(tags)
  /\ \E i \in DOMAIN symtab : \E m \in DOMAIN symtab[i].members :
       /\ Has(symtab[i].members[m].desc, "oneOf")
       /\ Len(symtab[i].members[m].desc.oneOf) = 2
       /\ Has(symtab[i].members[m].desc.oneOf[1], "minimum")
       /\ Has(symtab[i].members[m].desc.oneOf[1], "maximum")
       /\ DOMAIN symtab[i].members[m].desc.oneOf[2] \cap {"minimum", "maximum"} = {}

VisitedNames == {visited[i].name : i \in DOMAIN visited}

\* C23: the registry of a run holds only what the run itself declared: every
\* key was declared by a declaration this run visited, every endpoint in a
\* controller's list is an endpoint of this run, and a type is marked only
\* when this run has reached the marking loop.
C23_RegistryPerRun ==
  /\ SymKeys(symtab) \subseteq VisitedNames
  /\ \A i \in DOMAIN symtab : Range(symtab[i].methods) \subseteq Range(endpoints)
  /\ pc = "visit" => RelevantKeys(symtab) = {}

RECURSIVE Refs(_)
\* the $ref values schema fragment s holds, at any depth, each <<root, name>>
Refs(s) ==
  (IF Has(s, "ref") THEN {s.ref} ELSE {})
  \cup (IF Has(s, "items") THEN Refs(s.items) ELSE {})
  \cup (IF Has(s, "oneOf") THEN UNION {Refs(s.oneOf[i]) : i \in DOMAIN s.oneOf} ELSE {})
  \cup (IF Has(s, "properties")
        THEN UNION {Refs(s.properties[i].value) : i \in DOMAIN s.properties} ELSE {})

KeysOf(defs) == {defs[i].key : i \in DOMAIN defs}

DefinitionRefs(defs) == UNION {Refs(defs[i].value) : i \in DOMAIN defs}

\* the references of the validator module: those of its definitions and of
\* the parameter schemas of its entries
ValidatorRefs ==
  UNION {IF checkFile[c].kind = "part2" THEN DefinitionRefs(checkFile[c].definitions)
         ELSE IF checkFile[c].kind = "part3"
         THEN UNION {Refs(checkFile[c].entries[k].schema) : k \in DOMAIN checkFile[c].entries}
         ELSE {} : c \in DOMAIN checkFile}

\* the references of the paths of document doc: parameter and response schemas
PathRefs(doc) ==
  UNION {UNION {Refs(doc.paths[i].value.op.parameters[k].schema) :
                  k \in DOMAIN doc.paths[i].value.op.parameters}
         \cup UNION {IF Has(doc.paths[i].value.op.responses[r].value, "schema")
                     THEN Refs(doc.paths[i].value.op.responses[r].value.schema) ELSE {} :
                       r \in DOMAIN doc.paths[i].value.op.responses} :
           i \in DOMAIN doc.paths}

\* C24: every $ref of the validator module is #/definitions/<name> and every
\* $ref of the document is #/components/schemas/<name>, <name> a key of the
\* definitions map the artifact holds.
C24_NoDanglingRefs ==
  /\ \A ref \in ValidatorRefs : ref[1] = "#/definitions" /\ ref[2] \in KeysOf(definitions)
  /\ \A d \in DOMAIN swaggerFile :
       \A ref \in DefinitionRefs(swaggerFile[d].components.schemas) \cup PathRefs(swaggerFile[d]) :
         /\ ref[1] = "#/components/schemas"
         /\ ref[2] \in KeysOf(swaggerFile[d].components.schemas)

\* C25: in every validator schema of the written validator module, each name
\* of the required list is a key of properties.
C25_RequiredHaveProperties ==
  \A c \in DOMAIN checkFile :
    checkFile[c].kind = "part3" =>
      \A k \in DOMAIN checkFile[c].entries :
        Has(checkFile[c].entries[k].schema, "required") =>
          Range(checkFile[c].entries[k].schema.required)
            \subseteq KeysOf(checkFile[c].entries[k].schema.properties)

NoRouterError == error.kind = "No Router Definitions Found"

NoRouterDeclared == \A i \in DOMAIN symtab : symtab[i].type # "router"

\* the three writes of genSources to the validator module have been made
ValidatorWritten ==
  \E c \in DOMAIN checkFile :
    /\ checkFile[c].kind = "part1"
    /\ c + 2 \in DOMAIN checkFile
    /\ checkFile[c + 1].kind = "part2"
    /\ checkFile[c + 2].kind = "part3"

\* C26: the document is written only after the validator module and the route
\* module only after the document; the step that follows the validator module
\* in a run with no router fails with "No Router Definitions Found", and a run
\* that has failed so has written the validator module and neither the
\* document nor the route module.
C26_ArtifactOrderAndNoRouter ==
  /\ [](/\ swaggerFile # <<>> => ValidatorWritten
        /\ routesFile # <<>> => swaggerFile # <<>>
        /\ NoRouterError =>
             (NoRouterDeclared /\ pc = "aborted" /\ ValidatorWritten
              /\ swaggerFile = <<>> /\ routesFile = <<>>))
  /\ [][(pc = "swagger" /\ NoRouterDeclared) => NoRouterError']_vars

\* a run of a controller with an endpoint and no router has failed: the
\* validator module holds the endpoint's entry, the other artifacts nothing
C26_Witness ==
  /\ NoRouterError
  /\ endpoints # <<>>
  /\ \E c \in DOMAIN checkFile : checkFile[c].kind = "part3" /\ checkFile[c].entries # <<>>
  /\ swaggerFile = <<>>
  /\ routesFile = <<>>

====
